---- MODULE Spec2Model ----
(***************************************************************************)
(* Particle system of rg3d (src/scene/particle_system.rs): the emitters'   *)
(* spawn accounting (BaseEmitter::tick), the particle pool with its free   *)
(* list (ParticleSystem::update) and the draw data extraction              *)
(* (ParticleSystem::generate_draw_data).                                   *)
(*                                                                         *)
(* Numbers.  f32 quantities are modelled exactly on an integer grid: time  *)
(* (dt, BaseEmitter.time, lifetimes) is counted in ticks, TicksPerSecond   *)
(* of them to one second, chosen so that 1 / particle_spawn_rate is a      *)
(* whole number of ticks for every spawn rate of the model.  Vec3 values   *)
(* are modelled by their x component (every operation of the source        *)
(* treats the three axes alike).  u32 subtraction that would go below zero *)
(* is reported in the variable fault: a debug build panics there and a     *)
(* release build wraps to a count of about 2^32 particles, which no run of *)
(* the model follows any further.                                          *)
(***************************************************************************)
EXTENDS Integers, Sequences, FiniteSets, TLC

VARIABLES
    particles,          \* ParticleSystem.particles: the pool, slot i of the source is particles[i + 1]
    free_particles,     \* ParticleSystem.free_particles: 0-based slot indices, top of the stack last
    emitters,           \* ParticleSystem.emitters: emitter i of the source is emitters[i + 1]
    acceleration,       \* ParticleSystem.acceleration
    color_over_lifetime,\* ParticleSystem.color_over_lifetime: NoGradient or a gradient
    global_position,    \* ParticleSystem.base.global_position()
    sorted_particles,   \* the caller's index buffer filled by generate_draw_data
    draw_data,          \* the caller's DrawData filled by generate_draw_data
    fault,              \* "none", or the fatal error that ended the run
    callback,           \* CustomEmitterFactory.callback: "None" or the name of the closure set
    called,             \* the kinds the callback has been invoked with, oldest first
    returned,           \* what the last call of Emitter::new or Emitter::visit returned
    visitor             \* the Visitor: "none", the data written to it, or "read" once read back

\* The particle system with the buffers of its caller.
system_vars == <<particles, free_particles, emitters, acceleration, color_over_lifetime,
                 global_position, sorted_particles, draw_data, fault>>

\* The custom emitter registry and the result of the last construction.
factory_vars == <<callback, called, returned>>

vars == <<particles, free_particles, emitters, acceleration, color_over_lifetime,
          global_position, sorted_particles, draw_data, fault,
          callback, called, returned, visitor>>

----------------------------------------------------------------------------
(* Bounds of the model *)

MaxEmitters == 2        \* emitters in one particle system
MaxDt == 2              \* largest dt of one update, in ticks
MaxStrict == 2          \* largest n of a Strict(n) limit
MaxSpawned == 3         \* updates are followed while spawned_particles stays within this
ReservedIds == 5        \* emitter ids run from -ReservedIds
MaxKind == 1            \* to MaxKind
MaxCalls == 2           \* callback invocations that are followed
LimitBits == 7          \* width of the integers of a ParticleLimit, for the 32 of u32 and i32

\* Spawn rates (particles per second) of the model's emitters.
SpawnRates == {1, 2}

\* Ticks per second: the least number of ticks every spawn period divides.
TicksPerSecond ==
    CHOOSE k \in 1..8 :
        /\ \A r \in SpawnRates : k % r = 0
        /\ \A j \in 1..(k - 1) : \E r \in SpawnRates : j % r # 0

\* Camera positions handed to generate_draw_data.
CameraPositions == {0, 2}

----------------------------------------------------------------------------
(* Values *)

\* x, or 0 where x is negative.
Max0(x) == IF x < 0 THEN 0 ELSE x

WHITE == "WHITE"
\* Option<ColorGradient>: None is the empty sequence, Some(gradient) the pair of
\* colours <<from, to>> of the gradient.
NoGradient == <<>>

Unlimited == [tag |-> "Unlimited", n |-> 0]
Strict(n) == [tag |-> "Strict", n |-> n]

NumericRange(min, max) == [min |-> min, max |-> max]

\* NumericRange::random: any value of the closed interval.
RangeRandom(range) == range.min .. range.max

\* rng.gen_range(low, high): any value of the half-open interval [low, high).
GenRange(low, high) == low .. (high - 1)

\* Particle::default()
DefaultParticle ==
    [position |-> 0, velocity |-> 0, size |-> 1, alive |-> TRUE, size_modifier |-> 0,
     lifetime |-> 0, initial_lifetime |-> 2 * TicksPerSecond, rotation_speed |-> 0,
     rotation |-> 0, color |-> WHITE, emitter_index |-> 0, sqr_distance_to_camera |-> 0]

\* BaseEmitterBuilder::build plus the shape of BoxEmitterBuilder / SphereEmitterBuilder.
\* extent is the half width of a box and the radius of a sphere.
BuildEmitter(kind, extent, position, rate, limit, resurrect, lifetime) ==
    [kind |-> kind, extent |-> extent, position |-> position,
     particle_spawn_rate |-> rate, max_particles |-> limit,
     lifetime |-> lifetime, size |-> NumericRange(1, 1),
     size_modifier |-> NumericRange(0, 0), x_velocity |-> NumericRange(0, 0),
     rotation_speed |-> NumericRange(0, 0), rotation |-> NumericRange(0, 0),
     alive_particles |-> 0, time |-> 0, particles_to_spawn |-> 0,
     resurrect_particles |-> resurrect, spawned_particles |-> 0]

\* The emitters a caller may build and hand to add_emitter: an unlimited box
\* emitter, sphere emitters with a strict limit that resurrect their particles, and
\* sphere emitters with a strict limit that do not (one-shot emitters).
NewEmitters ==
    {BuildEmitter("Box", 1, 0, 1, Unlimited, TRUE, NumericRange(2, 2))}
    \cup {BuildEmitter("Sphere", 1, 0, 2, Strict(n), TRUE, NumericRange(3, 3)) :
            n \in 1..MaxStrict}
    \cup {BuildEmitter("Sphere", 1, 0, 2, Strict(n), FALSE, NumericRange(1, 2)) :
            n \in 1..MaxStrict}

EmptyDrawData == [vertices |-> <<>>, triangles |-> <<>>]

----------------------------------------------------------------------------
(* BaseEmitter::tick *)

\* particle_count before the strict limit is applied, and the time carried over.
TimePerParticle(e) == TicksPerSecond \div e.particle_spawn_rate

RawCount(e, dt) == (e.time + dt) \div TimePerParticle(e)

\* A tick that starts the accumulator again from zero.
CarriedTimeReset(e, dt) == 0

CarriedTime(e, dt) == (e.time + dt) - TimePerParticle(e) * RawCount(e, dt)

\* The branch `alive_particles < max_particles && alive_particles + particle_count > max_particles`.
Clamps(e, dt) ==
    /\ e.max_particles.tag = "Strict"
    /\ e.alive_particles < e.max_particles.n
    /\ e.alive_particles + RawCount(e, dt) > e.max_particles.n

\* `max_particles - particle_count` on u32 goes below zero.
TickUnderflows(e, dt) == Clamps(e, dt) /\ RawCount(e, dt) > e.max_particles.n

\* particle_count after the strict limit.
ParticleCount(e, dt) ==
    IF Clamps(e, dt) THEN e.max_particles.n - RawCount(e, dt) ELSE RawCount(e, dt)

\* The early return of tick: an emitter that does not resurrect and has spawned its share.
Halted(e) ==
    /\ e.max_particles.tag = "Strict"
    /\ ~e.resurrect_particles
    /\ e.spawned_particles > e.max_particles.n

\* A tick that sets particles_to_spawn and leaves spawned_particles alone.
TickForgetsSpawned(e, dt) ==
    [e EXCEPT !.time = CarriedTime(e, dt),
              !.particles_to_spawn = IF Halted(e) THEN 0 ELSE ParticleCount(e, dt)]

Tick(e, dt) ==
    IF Halted(e)
    THEN [e EXCEPT !.time = CarriedTime(e, dt), !.particles_to_spawn = 0]
    ELSE [e EXCEPT !.time = CarriedTime(e, dt),
                   !.particles_to_spawn = ParticleCount(e, dt),
                   !.spawned_particles = e.spawned_particles + ParticleCount(e, dt)]

----------------------------------------------------------------------------
(* Emit *)

\* BaseEmitter::emit: every outcome of the random draws.
BaseEmit(e, particle) ==
    {[particle EXCEPT !.lifetime = 0, !.initial_lifetime = l, !.color = WHITE,
                      !.size = s, !.size_modifier = m, !.velocity = v,
                      !.rotation = r, !.rotation_speed = w] :
        l \in RangeRandom(e.lifetime), s \in RangeRandom(e.size),
        m \in RangeRandom(e.size_modifier), v \in RangeRandom(e.x_velocity),
        r \in RangeRandom(e.rotation), w \in RangeRandom(e.rotation_speed)}

\* A box emit that forgets the position of the emitter.
BoxEmitAroundOrigin(e, particle) ==
    {[p EXCEPT !.position = d] :
        p \in BaseEmit(e, particle), d \in GenRange(-e.extent, e.extent)}

\* Emit for BoxEmitter: the base emit, then a position inside the box around the emitter.
BoxEmit(e, particle) ==
    {[p EXCEPT !.position = e.position + d] :
        p \in BaseEmit(e, particle), d \in GenRange(-e.extent, e.extent)}

\* Emit for SphereEmitter: the base emit, then radius * sin(theta) * cos(phi) with
\* radius drawn from [0, self.radius): any x with |x| <= radius.  The emitter's
\* position is not added.
SphereEmit(e, particle) ==
    {[p EXCEPT !.position = x] :
        p \in BaseEmit(e, particle),
        x \in UNION {(-radius) .. radius : radius \in GenRange(0, e.extent)}}

\* Emit for Emitter (static_dispatch).
Emit(e, particle) ==
    IF e.kind = "Box" THEN BoxEmit(e, particle) ELSE SphereEmit(e, particle)

----------------------------------------------------------------------------
(* Emitter::new, Emitter::id, CustomEmitterFactory, Visit for Emitter *)

\* The ids handed to Emitter::new and found as KindId in visitor data.
Ids == (-ReservedIds) .. MaxKind

Ok(emitter) == [tag |-> "Ok", emitter |-> emitter]
Err(message) == [tag |-> "Err", message |-> message]
Panic == [tag |-> "Panic"]
NoResult == [op |-> "none"]
NoVisitor == [state |-> "none"]

\* Emitter::Unknown carries no BaseEmitter.
UnknownEmitter == [kind |-> "Unknown"]

\* Emitter::Custom(emitter), seen through get_kind.
CustomEmitter(kind) == [kind |-> "Custom", get_kind |-> kind]

\* BaseEmitter::default() inside BoxEmitter::default() / SphereEmitter::default().
\* Lifetimes are in ticks; every other range is in a unit of its own: extent in
\* halves (0.5), size in eighths (0.125..0.25), size_modifier in 0.0005, velocity in
\* 0.001, rotation_speed in 0.02, rotation in pi.  No run draws from these ranges.
DefaultEmitter(kind) ==
    [kind |-> kind, extent |-> 1, position |-> 0,
     particle_spawn_rate |-> 0, max_particles |-> Unlimited,
     lifetime |-> NumericRange(5 * TicksPerSecond, 10 * TicksPerSecond),
     size |-> NumericRange(1, 2), size_modifier |-> NumericRange(1, 2),
     x_velocity |-> NumericRange(-1, 1), rotation_speed |-> NumericRange(-1, 1),
     rotation |-> NumericRange(-1, 1),
     alive_particles |-> 0, time |-> 0, particles_to_spawn |-> 0,
     resurrect_particles |-> TRUE, spawned_particles |-> 0]

\* The closures a program may register: one that always fails, one that knows the
\* non-negative kinds, one that builds an emitter of whatever kind it is asked for.
Callbacks == {"Failing", "Registered", "Lenient"}

\* callback(kind)
CallbackResult(cb, kind) ==
    IF cb = "Failing" THEN Err("callback failed")
    ELSE IF cb = "Registered" /\ kind < 0 THEN Err("unknown kind")
    ELSE Ok(CustomEmitter(kind))

\* CustomEmitterFactory::spawn
Spawn(cb, kind) ==
    IF cb = "None" THEN Err("no callback specified") ELSE CallbackResult(cb, kind)

\* The callback invocations of spawn(kind).
SpawnCalls(cb, kind) == IF cb = "None" THEN <<>> ELSE <<kind>>

\* The match of Emitter::new goes to the registry: no built-in arm took the id.
UsesRegistry(id) == id \notin {-1, -2, -3}

\* An Emitter::new that builds the default emitter where the registry fails.
EmitterNewOrDefault(cb, id) ==
    IF id = -2 THEN Ok(DefaultEmitter("Box"))
    ELSE IF id = -3 THEN Ok(DefaultEmitter("Sphere"))
    ELSE IF id = -1 \/ Spawn(cb, id).tag = "Err" THEN Ok(UnknownEmitter)
    ELSE Spawn(cb, id)

\* An Emitter::new whose arms for Box and Sphere are swapped.
EmitterNewSwapped(cb, id) ==
    IF id = -1 THEN Ok(UnknownEmitter)
    ELSE IF id = -2 THEN Ok(DefaultEmitter("Sphere"))
    ELSE IF id = -3 THEN Ok(DefaultEmitter("Box"))
    ELSE Spawn(cb, id)

\* Emitter::new(id)
EmitterNew(cb, id) ==
    IF id = -1 THEN Ok(UnknownEmitter)
    ELSE IF id = -2 THEN Ok(DefaultEmitter("Box"))
    ELSE IF id = -3 THEN Ok(DefaultEmitter("Sphere"))
    ELSE Spawn(cb, id)

\* The callback invocations of Emitter::new(id).
EmitterNewCalls(cb, id) == IF UsesRegistry(id) THEN SpawnCalls(cb, id) ELSE <<>>

\* Emitter::id panics: the assert on a custom emitter's get_kind fails.
IdPanics(e) == e.kind = "Custom" /\ e.get_kind < 0

\* Emitter::id, where it returns.
EmitterId(e) ==
    IF e.kind = "Unknown" THEN -1
    ELSE IF e.kind = "Box" THEN -2
    ELSE IF e.kind = "Sphere" THEN -3
    ELSE e.get_kind

\* A static_dispatch! whose Unknown arm returns like the others.
DispatchesAlways(e) == TRUE

\* static_dispatch!: the arm of the Unknown variant panics, every other arm calls through.
Dispatches(e) == e.kind # "Unknown"

\* What the visit of the shape leaves in the region: Visit for BoxEmitter, Visit
\* for SphereEmitter; a custom emitter's region is its own business.
ShapeData(e) ==
    IF e.kind = "Box" THEN [HalfWidth |-> e.extent]
    ELSE IF e.kind = "Sphere" THEN [Radius |-> e.extent]
    ELSE <<>>

\* Visit for Emitter, writing: KindId, then the visit of the shape.
WriteEmitter(e) == [KindId |-> EmitterId(e), shape |-> ShapeData(e)]

\* Visit for Emitter, reading: KindId, Emitter::new(kind_id)?, then the visit of
\* the shape through static_dispatch.
ReadEmitter(cb, node) ==
    LET made == EmitterNew(cb, node.KindId)
    IN  IF made.tag = "Err" THEN made
        ELSE IF ~Dispatches(made.emitter) THEN Panic
        ELSE IF made.emitter.kind = "Box"
        THEN Ok([made.emitter EXCEPT !.extent = node.shape.HalfWidth])
        ELSE IF made.emitter.kind = "Sphere"
        THEN Ok([made.emitter EXCEPT !.extent = node.shape.Radius])
        ELSE made

\* Visitor data of one emitter for every id: what an emitter of that kind wrote.
EmitterNodes ==
    {[KindId |-> id,
      shape |-> IF id = -2 THEN [HalfWidth |-> 1]
                ELSE IF id = -3 THEN [Radius |-> 1] ELSE <<>>] : id \in Ids}

\* CustomEmitterFactory::set_callback
SetCallback(cb) ==
    /\ fault = "none"
    /\ callback' = cb
    /\ UNCHANGED <<system_vars, called, returned, visitor>>

\* A call of Emitter::new(id) by the program.
CallEmitterNew(id) ==
    /\ fault = "none"
    /\ Len(called) < MaxCalls
    /\ called' = called \o EmitterNewCalls(callback, id)
    /\ returned' = [op |-> "new", id |-> id, result |-> EmitterNew(callback, id)]
    /\ UNCHANGED <<system_vars, callback, visitor>>

\* A call of Emitter::visit on a default emitter with a visitor that reads node.
CallEmitterVisit(node) ==
    /\ fault = "none"
    /\ Len(called) < MaxCalls
    /\ called' = called \o EmitterNewCalls(callback, node.KindId)
    /\ returned' = [op |-> "visit", id |-> node.KindId,
                    result |-> ReadEmitter(callback, node)]
    /\ fault' = IF ReadEmitter(callback, node) = Panic THEN "panic" ELSE fault
    /\ UNCHANGED <<particles, free_particles, emitters, acceleration, color_over_lifetime,
                   global_position, sorted_particles, draw_data, callback, visitor>>

----------------------------------------------------------------------------
(* ParticleSystem::update *)

RECURSIVE Repeat(_, _)
Repeat(x, n) == IF n = 0 THEN <<>> ELSE <<x>> \o Repeat(x, n - 1)

\* A spawn loop that walks the emitter list from its end.
RECURSIVE SpawnOrderReversed(_, _)
SpawnOrderReversed(ems, from) ==
    IF from > Len(ems) THEN <<>>
    ELSE SpawnOrderReversed(ems, from + 1) \o Repeat(from - 1, ems[from].particles_to_spawn)

\* The order of the spawn loop: the 0-based index of the emitter of every particle
\* spawned in this update, emitters from(1-based) from .. Len(ems).
RECURSIVE SpawnOrder(_, _)
SpawnOrder(ems, from) ==
    IF from > Len(ems) THEN <<>>
    ELSE Repeat(from - 1, ems[from].particles_to_spawn) \o SpawnOrder(ems, from + 1)

\* A spawn loop that leaves emitter_index at its default.
NewParticleDefaultIndex(i) == DefaultParticle

\* `Particle::default()` with `particle.emitter_index = i as u32`.
NewParticle(i) == [DefaultParticle EXCEPT !.emitter_index = i]

\* Every sequence of particles the emitters may emit in that order.
RECURSIVE Batches(_, _)
Batches(ems, order) ==
    IF order = <<>> THEN {<<>>}
    ELSE {<<p>> \o rest :
            p \in Emit(ems[Head(order) + 1], NewParticle(Head(order))),
            rest \in Batches(ems, Tail(order))}

\* The spawn loop places the k-th particle of an update (k counts from 1) in the
\* slot it pops from the free list, whose top is its last element, or, once the
\* list is empty, in a slot pushed behind the pool.  The slot is 1-based here:
\* slot i of the source is slot i + 1.
SpawnSlot(free, len, k) ==
    IF k <= Len(free) THEN free[Len(free) - k + 1] + 1 ELSE len + (k - Len(free))

\* A spawn loop that reads the top of the free list without popping it.
FreeAfterSpawnKeepsAll(free, count) == free

\* The free list after the spawn loop has popped once for each of count particles.
FreeAfterSpawn(free, count) ==
    SubSeq(free, 1, Max0(Len(free) - count))

\* A spawn loop that pushes every particle behind the pool, free slots or not.
PoolAlwaysAppends(pool, free, batch) == pool \o batch

\* The pool after the spawn loop: each slot written holds the last particle
\* written to it, every other slot is untouched.
PoolAfterSpawn(pool, free, batch) ==
    LET slot(k) == SpawnSlot(free, Len(pool), k)
        top == Len(pool) + Max0(Len(batch) - Len(free))
        writers(i) == {k \in 1..Len(batch) : slot(k) = i}
        last(S) == CHOOSE k \in S : \A m \in S : m <= k
    IN  [i \in 1..top |-> IF writers(i) # {} THEN batch[last(writers(i))] ELSE pool[i]]

\* The emitters after the spawn loop: every emitter has incremented
\* alive_particles once for each of its particles_to_spawn particles.
EmittersAfterSpawn(ems) ==
    [i \in 1..Len(ems) |->
        [ems[i] EXCEPT !.alive_particles = @ + ems[i].particles_to_spawn]]

\* ColorGradient::get_color at lifetime / initial_lifetime.  A gradient is a pair of
\* colours <<from, to>>; the colour is `from` in the first half of the life and
\* `to` afterwards.
GetColor(gradient, lifetime, initial_lifetime) ==
    IF 2 * lifetime < initial_lifetime THEN gradient[1] ELSE gradient[2]

\* An integration that lets the size go below zero.
IntegrateNoClamp(particle, dt, acceleration_offset, gradient) ==
    LET velocity == particle.velocity + acceleration_offset
    IN  [particle EXCEPT
            !.velocity = velocity,
            !.position = particle.position + velocity,
            !.size = particle.size + particle.size_modifier * dt,
            !.rotation = particle.rotation + particle.rotation_speed * dt,
            !.color = IF gradient # NoGradient
                      THEN GetColor(gradient, particle.lifetime, particle.initial_lifetime)
                      ELSE WHITE]

\* An integration that scales the velocity by dt before adding it to the position.
IntegrateScaledByDt(particle, dt, acceleration_offset, gradient) ==
    LET velocity == particle.velocity + acceleration_offset
        size == particle.size + particle.size_modifier * dt
    IN  [particle EXCEPT
            !.velocity = velocity,
            !.position = particle.position + velocity * dt,
            !.size = IF size < 0 THEN 0 ELSE size,
            !.rotation = particle.rotation + particle.rotation_speed * dt,
            !.color = IF gradient # NoGradient
                      THEN GetColor(gradient, particle.lifetime, particle.initial_lifetime)
                      ELSE WHITE]

\* The else branch of the particle loop: a particle that stays alive.
Integrate(particle, dt, acceleration_offset, gradient) ==
    LET velocity == particle.velocity + acceleration_offset
        size == particle.size + particle.size_modifier * dt
    IN  [particle EXCEPT
            !.velocity = velocity,
            !.position = particle.position + velocity,
            !.size = IF size < 0 THEN 0 ELSE size,
            !.rotation = particle.rotation + particle.rotation_speed * dt,
            !.color = IF gradient # NoGradient
                      THEN GetColor(gradient, particle.lifetime, particle.initial_lifetime)
                      ELSE WHITE]

\* A death test that does not look at the alive flag.
ExpiresIgnoringAlive(particle, dt) ==
    particle.lifetime + dt >= particle.initial_lifetime

\* The particle dies in this update: it is alive and its lifetime reaches
\* initial_lifetime.
Expires(particle, dt) ==
    particle.alive /\ particle.lifetime + dt >= particle.initial_lifetime

\* A particle loop that moves a particle in the update that kills it.
StepParticleIntegratesDying(particle, dt, acceleration_offset, gradient) ==
    LET aged == [particle EXCEPT !.lifetime = particle.lifetime + dt]
        moved == Integrate(aged, dt, acceleration_offset, gradient)
    IN  IF ~particle.alive THEN particle
        ELSE IF aged.lifetime >= aged.initial_lifetime
        THEN [moved EXCEPT !.alive = FALSE, !.lifetime = aged.initial_lifetime]
        ELSE moved

\* The body of the particle loop, as far as it changes the particle itself.
StepParticle(particle, dt, acceleration_offset, gradient) ==
    LET aged == [particle EXCEPT !.lifetime = particle.lifetime + dt]
    IN  IF ~particle.alive THEN particle
        ELSE IF aged.lifetime >= aged.initial_lifetime
        THEN [aged EXCEPT !.alive = FALSE, !.lifetime = aged.initial_lifetime]
        ELSE Integrate(aged, dt, acceleration_offset, gradient)

\* A particle loop that kills particles without pushing their slots.
ExpiredIndicesNotPushed(pool, i, dt) == <<>>

\* The particle loop pushes the 0-based index of every particle that dies, in
\* pool order.
RECURSIVE ExpiredIndices(_, _, _)
ExpiredIndices(pool, i, dt) ==
    IF i > Len(pool) THEN <<>>
    ELSE (IF Expires(pool[i], dt) THEN <<i - 1>> ELSE <<>>)
         \o ExpiredIndices(pool, i + 1, dt)

\* A particle loop that frees the slot of a dying particle without telling its emitter.
EmittersAfterStepNoDecrement(ems, pool, dt) == ems

\* The particle loop decrements alive_particles of the emitter a dying particle
\* names, if the emitter list has one at that index.
EmittersAfterStep(ems, pool, dt) ==
    [i \in 1..Len(ems) |->
        [ems[i] EXCEPT !.alive_particles =
            @ - Cardinality({k \in 1..Len(pool) :
                                Expires(pool[k], dt) /\ pool[k].emitter_index = i - 1})]]

\* emitter.tick(dt) for every emitter.
TickAll(ems, dt) == [i \in 1..Len(ems) |-> Tick(ems[i], dt)]

\* `alive_particles - 1` on u32 went below zero in the particle loop.
CountUnderflows(ems) == \E i \in 1..Len(ems) : ems[i].alive_particles < 0

\* update(dt) that runs to its end: the ticks, the spawn loop, the particle loop.
Update(dt) ==
    /\ fault = "none"
    /\ \A i \in 1..Len(emitters) : Dispatches(emitters[i])
    /\ \A i \in 1..Len(emitters) : ~TickUnderflows(emitters[i], dt)
    /\ LET ticked == TickAll(emitters, dt)
       IN  /\ \A i \in 1..Len(ticked) : ticked[i].spawned_particles <= MaxSpawned
           /\ \E batch \in Batches(ticked, SpawnOrder(ticked, 1)) :
                LET pool == PoolAfterSpawn(particles, free_particles, batch)
                    free == FreeAfterSpawn(free_particles, Len(batch))
                    ems == EmittersAfterStep(EmittersAfterSpawn(ticked), pool, dt)
                    ok == ~CountUnderflows(ems)
                IN  /\ particles' =
                          IF ok THEN [i \in 1..Len(pool) |->
                                        StepParticle(pool[i], dt, acceleration * dt * dt,
                                                     color_over_lifetime)]
                                ELSE particles
                    /\ free_particles' =
                          IF ok THEN free \o ExpiredIndices(pool, 1, dt) ELSE free_particles
                    /\ emitters' = IF ok THEN ems ELSE emitters
                    /\ fault' = IF ok THEN fault ELSE "overflow"
    /\ UNCHANGED <<acceleration, color_over_lifetime, global_position,
                   sorted_particles, draw_data>>
    /\ UNCHANGED <<factory_vars, visitor>>

\* update(dt) that ends in tick: `max_particles - particle_count` goes below zero.
UpdateOverflow(dt) ==
    /\ fault = "none"
    /\ \E i \in 1..Len(emitters) :
        /\ \A j \in 1..i : Dispatches(emitters[j])
        /\ TickUnderflows(emitters[i], dt)
    /\ fault' = "overflow"
    /\ UNCHANGED <<particles, free_particles, emitters, acceleration,
                   color_over_lifetime, global_position, sorted_particles, draw_data>>
    /\ UNCHANGED <<factory_vars, visitor>>

\* update(dt) that ends in the tick loop at an Unknown emitter: emitter.tick goes
\* through DerefMut for Emitter, whose static_dispatch! panics.
UpdatePanic(dt) ==
    /\ fault = "none"
    /\ \E i \in 1..Len(emitters) :
        /\ ~Dispatches(emitters[i])
        /\ \A j \in 1..(i - 1) :
            Dispatches(emitters[j]) /\ ~TickUnderflows(emitters[j], dt)
    /\ fault' = "panic"
    /\ UNCHANGED <<particles, free_particles, emitters, acceleration,
                   color_over_lifetime, global_position, sorted_particles, draw_data>>
    /\ UNCHANGED <<factory_vars, visitor>>

\* add_emitter(emitter)
AddEmitter(emitter) ==
    /\ fault = "none"
    /\ Len(emitters) < MaxEmitters
    /\ emitters' = Append(emitters, emitter)
    /\ UNCHANGED <<particles, free_particles, acceleration, color_over_lifetime,
                   global_position, sorted_particles, draw_data, fault>>
    /\ UNCHANGED <<factory_vars, visitor>>

----------------------------------------------------------------------------
(* ParticleSystem::generate_draw_data *)

\* Vec3::sqr_distance
SqrDistance(a, b) == (a - b) * (a - b)

\* A first loop that leaves the world position in the particle.
WithDistancesMovesParticles(pool, node_position, camera_pos) ==
    [i \in 1..Len(pool) |->
        IF pool[i].alive
        THEN [pool[i] EXCEPT !.position = pool[i].position + node_position,
                             !.sqr_distance_to_camera =
                                SqrDistance(camera_pos, pool[i].position + node_position)]
        ELSE pool[i]]

\* The first loop: the distance to the camera of every alive particle.
WithDistances(pool, node_position, camera_pos) ==
    [i \in 1..Len(pool) |->
        IF pool[i].alive
        THEN [pool[i] EXCEPT !.sqr_distance_to_camera =
                                SqrDistance(camera_pos, pool[i].position + node_position)]
        ELSE pool[i]]

\* The first loop: the 0-based indices of the alive particles, in pool order.
RECURSIVE AliveIndices(_, _)
AliveIndices(pool, i) ==
    IF i > Len(pool) THEN <<>>
    ELSE (IF pool[i].alive THEN <<i - 1>> ELSE <<>>) \o AliveIndices(pool, i + 1)

\* A comparator that orders the nearer particle first.
BeforeAscending(pool, a, b) ==
    pool[a + 1].sqr_distance_to_camera < pool[b + 1].sqr_distance_to_camera

\* The comparator of sort_by says Ordering::Less: a is ordered before b.
Before(pool, a, b) ==
    pool[a + 1].sqr_distance_to_camera > pool[b + 1].sqr_distance_to_camera

\* x put into a sorted sequence behind every element that is not ordered after it.
RECURSIVE InsertSorted(_, _, _)
InsertSorted(pool, sorted, x) ==
    IF sorted = <<>> THEN <<x>>
    ELSE IF Before(pool, x, Head(sorted)) THEN <<x>> \o sorted
    ELSE <<Head(sorted)>> \o InsertSorted(pool, Tail(sorted), x)

\* slice::sort_by, a stable sort: elements that compare Equal keep their order.
RECURSIVE SortBy(_, _)
SortBy(pool, indices) ==
    IF indices = <<>> THEN <<>>
    ELSE InsertSorted(pool, SortBy(pool, SubSeq(indices, 1, Len(indices) - 1)),
                      indices[Len(indices)])

Vertex(particle, tex_coord) ==
    [position |-> particle.position, tex_coord |-> tex_coord, size |-> particle.size,
     rotation |-> particle.rotation, color |-> particle.color]

\* A quad that lacks its fourth corner.
QuadMissingVertex(particle) ==
    <<Vertex(particle, <<0, 0>>), Vertex(particle, <<1, 0>>), Vertex(particle, <<1, 1>>)>>

\* The four vertices pushed for one particle.
Quad(particle) ==
    <<Vertex(particle, <<0, 0>>), Vertex(particle, <<1, 0>>),
      Vertex(particle, <<1, 1>>), Vertex(particle, <<0, 1>>)>>

\* Triangles whose base index is the number of the particle, not of its vertex.
QuadTrianglesUnscaled(i) ==
    LET base_index == i
    IN  <<<<base_index, base_index + 1, base_index + 2>>,
          <<base_index, base_index + 2, base_index + 3>>>>

\* The two triangles pushed for the i-th particle (i counts from 0).
QuadTriangles(i) ==
    LET base_index == i * 4
    IN  <<<<base_index, base_index + 1, base_index + 2>>,
          <<base_index, base_index + 2, base_index + 3>>>>

\* The second loop, from the i-th sorted particle on (i counts from 0).
RECURSIVE EmitQuads(_, _, _, _)
EmitQuads(pool, sorted, i, data) ==
    IF i >= Len(sorted) THEN data
    ELSE EmitQuads(pool, sorted, i + 1,
                   [vertices |-> data.vertices \o Quad(pool[sorted[i + 1] + 1]),
                    triangles |-> data.triangles \o QuadTriangles(i)])

\* A clear that leaves the buffers as they are.
ClearKeepsAll(data) == data

\* DrawData::clear
Clear(data) == [data EXCEPT !.vertices = <<>>, !.triangles = <<>>]

\* generate_draw_data(sorted_particles, draw_data, camera_pos)
GenerateDrawData(camera_pos) ==
    /\ fault = "none"
    /\ LET pool == WithDistances(particles, global_position, camera_pos)
           sorted == SortBy(pool, AliveIndices(pool, 1))
       IN  /\ particles' = pool
           /\ sorted_particles' = sorted
           /\ draw_data' = EmitQuads(pool, sorted, 0, Clear(draw_data))
    /\ UNCHANGED <<free_particles, emitters, acceleration, color_over_lifetime,
                   global_position, fault>>
    /\ UNCHANGED <<factory_vars, visitor>>

----------------------------------------------------------------------------
(* Visit for Particle, Visit for ParticleSystem *)

\* Visit for Particle, writing: the fields stored under their keys.
WriteParticle(particle) ==
    [Pos |-> particle.position, Vel |-> particle.velocity, Size |-> particle.size,
     Alive |-> particle.alive, SizeMod |-> particle.size_modifier,
     LifeTime |-> particle.lifetime, InitLifeTime |-> particle.initial_lifetime,
     RotSpeed |-> particle.rotation_speed, Rotation |-> particle.rotation,
     Color |-> particle.color, EmitterIndex |-> particle.emitter_index]

\* A read of a particle that leaves the alive flag at its default.
ReadParticleSkipsAlive(node) ==
    [DefaultParticle EXCEPT
        !.position = node.Pos, !.velocity = node.Vel, !.size = node.Size,
        !.size_modifier = node.SizeMod,
        !.lifetime = node.LifeTime, !.initial_lifetime = node.InitLifeTime,
        !.rotation_speed = node.RotSpeed, !.rotation = node.Rotation,
        !.color = node.Color, !.emitter_index = node.EmitterIndex]

\* Visit for Particle, reading into Particle::default(): sqr_distance_to_camera
\* is not visited and keeps its default.
ReadParticle(node) ==
    [DefaultParticle EXCEPT
        !.position = node.Pos, !.velocity = node.Vel, !.size = node.Size,
        !.alive = node.Alive, !.size_modifier = node.SizeMod,
        !.lifetime = node.LifeTime, !.initial_lifetime = node.InitLifeTime,
        !.rotation_speed = node.RotSpeed, !.rotation = node.Rotation,
        !.color = node.Color, !.emitter_index = node.EmitterIndex]

\* Visit for ParticleSystem, writing (the texture is left out of the model).
WriteSystem ==
    [Particles |-> [i \in 1..Len(particles) |-> WriteParticle(particles[i])],
     FreeParticles |-> free_particles,
     Emitters |-> [i \in 1..Len(emitters) |-> WriteEmitter(emitters[i])],
     Acceleration |-> acceleration,
     ColorGradient |-> color_over_lifetime,
     Base |-> global_position]

\* The emitter Visit for Emitter leaves behind when it reads node and returns Ok.
ReadEmitterOk(node) == ReadEmitter(callback, node).emitter

\* particle_system.visit(name, visitor) with a writing visitor.
Save ==
    /\ fault = "none"
    /\ visitor.state = "none"
    /\ \A i \in 1..Len(emitters) : Dispatches(emitters[i]) /\ ~IdPanics(emitters[i])
    /\ visitor' = [state |-> "written", data |-> WriteSystem]
    /\ UNCHANGED <<system_vars, factory_vars>>

\* visit(name, visitor) on ParticleSystem::default() with a visitor that reads
\* what Save wrote; every emitter is read without an error.
Load ==
    /\ fault = "none"
    /\ visitor.state = "written"
    /\ \A i \in 1..Len(visitor.data.Emitters) :
        ReadEmitter(callback, visitor.data.Emitters[i]).tag = "Ok"
    /\ particles' = [i \in 1..Len(visitor.data.Particles) |->
                        ReadParticle(visitor.data.Particles[i])]
    /\ free_particles' = visitor.data.FreeParticles
    /\ emitters' = [i \in 1..Len(visitor.data.Emitters) |->
                        ReadEmitterOk(visitor.data.Emitters[i])]
    /\ acceleration' = visitor.data.Acceleration
    /\ color_over_lifetime' = visitor.data.ColorGradient
    /\ global_position' = visitor.data.Base
    /\ visitor' = [state |-> "read"]
    /\ UNCHANGED <<sorted_particles, draw_data, fault, factory_vars>>

----------------------------------------------------------------------------
(* Visit for ParticleLimit *)

\* The u32 values, at the width of the model.
LimitValues == 0 .. (2 ^ LimitBits - 1)

\* `value as i32`: the same bits read as a signed integer.
AsI32(value) == IF value >= 2 ^ (LimitBits - 1) THEN value - 2 ^ LimitBits ELSE value

\* `amount as u32`: the same bits read as an unsigned integer.
AsU32(amount) == IF amount < 0 THEN amount + 2 ^ LimitBits ELSE amount

\* Visit for ParticleLimit, writing: the Amount stored.
WriteLimit(limit) == IF limit.tag = "Unlimited" THEN -1 ELSE AsI32(limit.n)

\* Visit for ParticleLimit, reading: the limit made of the Amount found.
ReadLimit(amount) == IF amount < 0 THEN Unlimited ELSE Strict(AsU32(amount))

\* The limits a caller may hold: Unlimited and Strict(n) for every n.
Limits == {Unlimited} \cup {Strict(n) : n \in LimitValues}

\* limit.visit(name, visitor) with a writing visitor.
SaveLimit(limit) ==
    /\ visitor.state = "none"
    /\ visitor' = [state |-> "written", data |-> [Amount |-> WriteLimit(limit)]]
    /\ returned' = [op |-> "save_limit", limit |-> limit]
    /\ UNCHANGED <<system_vars, callback, called>>

\* visit(name, visitor) on another ParticleLimit with a visitor that reads what
\* SaveLimit wrote.
LoadLimit ==
    /\ visitor.state = "written"
    /\ visitor' = [state |-> "read"]
    /\ returned' = [op |-> "load_limit", limit |-> returned.limit,
                    read |-> ReadLimit(visitor.data.Amount)]
    /\ UNCHANGED <<system_vars, callback, called>>

----------------------------------------------------------------------------
(* Specification *)

\* ParticleSystemBuilder::build with no emitters: an empty pool.
Init ==
    /\ particles = <<>>
    /\ free_particles = <<>>
    /\ emitters = <<>>
    /\ acceleration = 0
    /\ color_over_lifetime = NoGradient
    /\ global_position = 1
    /\ sorted_particles = <<>>
    /\ draw_data = EmptyDrawData
    /\ fault = "none"
    /\ callback = "None"
    /\ called = <<>>
    /\ returned = NoResult
    /\ visitor = NoVisitor

Next ==
    \/ \E emitter \in NewEmitters : AddEmitter(emitter)
    \/ \E dt \in 0..MaxDt : Update(dt)
    \/ \E dt \in 0..MaxDt : UpdateOverflow(dt)
    \/ \E camera_pos \in CameraPositions : GenerateDrawData(camera_pos)

Spec == Init /\ [][Next]_vars

\* A particle system built with one or two one-shot emitters, updated once per
\* frame by the scene: update is called again and again with dt > 0.
OneShotEmitters == {e \in NewEmitters : e.max_particles.tag = "Strict" /\ ~e.resurrect_particles}

OneShotInit ==
    /\ particles = <<>>
    /\ free_particles = <<>>
    /\ emitters \in {<<a>> : a \in OneShotEmitters}
                    \cup {<<a, b>> : a \in OneShotEmitters, b \in OneShotEmitters}
    /\ acceleration = 0
    /\ color_over_lifetime = NoGradient
    /\ global_position = 1
    /\ sorted_particles = <<>>
    /\ draw_data = EmptyDrawData
    /\ fault = "none"
    /\ callback = "None"
    /\ called = <<>>
    /\ returned = NoResult
    /\ visitor = NoVisitor

Frame == \E dt \in 1..MaxDt : Update(dt) \/ UpdateOverflow(dt)

OneShotNext ==
    \/ \E dt \in 0..MaxDt : Update(dt)
    \/ \E dt \in 0..MaxDt : UpdateOverflow(dt)

OneShotSpec == OneShotInit /\ [][OneShotNext]_vars /\ WF_vars(Frame)

\* A program that registers callbacks, constructs emitters from ids and reads
\* emitters from visitor data.
FactoryNext ==
    \/ \E cb \in Callbacks : SetCallback(cb)
    \/ \E id \in Ids : CallEmitterNew(id)
    \/ \E node \in EmitterNodes : CallEmitterVisit(node)

FactorySpec == Init /\ [][FactoryNext]_vars

\* A particle system built with a box emitter and a sphere emitter, simulated and
\* drawn for some frames, then written through a visitor and read back.
SaveEmitters ==
    <<BuildEmitter("Box", 2, 0, 1, Unlimited, TRUE, NumericRange(3, 3)),
      BuildEmitter("Sphere", 2, 0, 2, Strict(1), TRUE, NumericRange(2, 2))>>

SaveInit ==
    /\ particles = <<>>
    /\ free_particles = <<>>
    /\ emitters = SaveEmitters
    /\ acceleration = 0
    /\ color_over_lifetime = NoGradient
    /\ global_position = 1
    /\ sorted_particles = <<>>
    /\ draw_data = EmptyDrawData
    /\ fault = "none"
    /\ callback = "None"
    /\ called = <<>>
    /\ returned = NoResult
    /\ visitor = NoVisitor

SaveNext ==
    \/ visitor.state = "none" /\ \E dt \in 0..MaxDt : Update(dt)
    \/ visitor.state = "none" /\ \E dt \in 0..MaxDt : UpdateOverflow(dt)
    \/ visitor.state = "none" /\ \E camera_pos \in CameraPositions : GenerateDrawData(camera_pos)
    \/ Save
    \/ Load

SaveSpec == SaveInit /\ [][SaveNext]_vars

\* A program that also hands Emitter::Unknown (Emitter::default()) to add_emitter.
UnknownNext ==
    \/ \E emitter \in NewEmitters \cup {UnknownEmitter} : AddEmitter(emitter)
    \/ \E dt \in 0..MaxDt : Update(dt)
    \/ \E dt \in 0..MaxDt : UpdateOverflow(dt)
    \/ \E dt \in 0..MaxDt : UpdatePanic(dt)

UnknownSpec == Init /\ [][UnknownNext]_vars

\* A particle system under set_acceleration, with or without a colour gradient,
\* whose emitter draws sizes from a range that reaches below zero and gives its
\* particles a negative size modifier, a velocity and a rotation speed.
MotionEmitters ==
    {[BuildEmitter("Box", 1, 1, 1, Strict(1), FALSE, NumericRange(3, 4)) EXCEPT
        !.size = NumericRange(-1, 2), !.size_modifier = NumericRange(-1, -1),
        !.x_velocity = NumericRange(1, 1), !.rotation_speed = NumericRange(1, 1)]}

Gradients == {NoGradient, <<"RED", "BLUE">>}

MotionInit ==
    /\ particles = <<>>
    /\ free_particles = <<>>
    /\ emitters \in {<<e>> : e \in MotionEmitters}
    /\ acceleration = 1
    /\ color_over_lifetime \in Gradients
    /\ global_position = 1
    /\ sorted_particles = <<>>
    /\ draw_data = EmptyDrawData
    /\ fault = "none"
    /\ callback = "None"
    /\ called = <<>>
    /\ returned = NoResult
    /\ visitor = NoVisitor

\* update is called with dt > 0: under update(0) a particle keeps its age and
\* moves by its velocity, without end.
MotionNext ==
    \/ \E dt \in 1..MaxDt : Update(dt)
    \/ GenerateDrawData(0)

MotionSpec == MotionInit /\ [][MotionNext]_vars

\* Box and sphere emitters at two positions with two extents, every range of
\* theirs with more than one value and some with negative ones.
EmitEmitters ==
    {[BuildEmitter(kind, extent, position, 1, Unlimited, TRUE, NumericRange(2, 3)) EXCEPT
        !.size = NumericRange(-1, 1), !.size_modifier = NumericRange(-1, 0),
        !.x_velocity = NumericRange(-1, 1), !.rotation = NumericRange(0, 1),
        !.rotation_speed = NumericRange(1, 2)] :
        kind \in {"Box", "Sphere"}, extent \in 1..2, position \in 0..1}

\* emitter.emit(self, &mut particle) as the spawn loop calls it for emitter i;
\* the particle of one call is kept for inspection.
CallEmit(e, i) ==
    /\ returned.op = "none"
    /\ \E particle \in Emit(e, NewParticle(i)) :
        returned' = [op |-> "emit", emitter |-> e, index |-> i, particle |-> particle]
    /\ UNCHANGED <<system_vars, callback, called, visitor>>

EmitNext == \E e \in EmitEmitters, i \in 0..(MaxEmitters - 1) : CallEmit(e, i)

EmitSpec == Init /\ [][EmitNext]_vars

\* A program that writes a ParticleLimit through a visitor and reads it back.
LimitNext ==
    \/ \E limit \in Limits : SaveLimit(limit)
    \/ LoadLimit

LimitSpec == Init /\ [][LimitNext]_vars

----------------------------------------------------------------------------
(* Vocabulary of the properties *)

\* The 1-based slots of the alive particles of a pool.
AliveSlots(pool) == {i \in 1..Len(pool) : pool[i].alive}

\* The 1-based slots of the alive particles of emitter i (0-based, as in emitter_index).
AliveSlotsOf(pool, i) == {k \in AliveSlots(pool) : pool[k].emitter_index = i}

RECURSIVE SumAlive(_, _)
SumAlive(ems, from) ==
    IF from > Len(ems) THEN 0 ELSE ems[from].alive_particles + SumAlive(ems, from + 1)

RECURSIVE SumToSpawn(_, _)
SumToSpawn(ems, from) ==
    IF from > Len(ems) THEN 0 ELSE ems[from].particles_to_spawn + SumToSpawn(ems, from + 1)

RECURSIVE SumSpawned(_, _)
SumSpawned(ems, from) ==
    IF from > Len(ems) THEN 0 ELSE ems[from].spawned_particles + SumSpawned(ems, from + 1)

IsStrict(e) == e.max_particles.tag = "Strict"

\* An emitter with a strict limit that does not resurrect its particles.
OneShot(e) == IsStrict(e) /\ ~e.resurrect_particles

\* The step is a call of update that ran to its end.
UpdateStep == \E dt \in 0..MaxDt : Update(dt)

\* The step is a call of generate_draw_data.
DrawStep == \E camera_pos \in CameraPositions : GenerateDrawData(camera_pos)

----------------------------------------------------------------------------
(* C1: an emitter limited to Strict(n) has at most n alive particles after    *)
(* every update, whatever the tick intervals were.                            *)
C1_StrictLimitHolds ==
    \A i \in 1..Len(emitters) :
        IsStrict(emitters[i]) => emitters[i].alive_particles <= emitters[i].max_particles.n

(* C2: the alive_particles counters of the emitters add up to the number of   *)
(* pool particles whose alive flag is set.                                    *)
C2_AliveCountersMatchPool ==
    SumAlive(emitters, 1) = Cardinality(AliveSlots(particles))

\* Two emitters with alive particles each, next to a dead slot.
C2_Witness ==
    /\ Len(emitters) = 2
    /\ emitters[1].alive_particles > 0
    /\ emitters[2].alive_particles > 0
    /\ \E i \in 1..Len(particles) : ~particles[i].alive

(* C3: every index on the free list names a slot of the pool that holds a     *)
(* dead particle, and no index is on the list twice: the slots a spawn pops   *)
(* for reuse are dead and distinct, so a spawn never overwrites an alive      *)
(* particle and no two spawned particles get the same slot.                   *)
C3_FreeSlotsAreDead ==
    /\ \A k \in 1..Len(free_particles) :
        /\ free_particles[k] + 1 \in 1..Len(particles)
        /\ ~particles[free_particles[k] + 1].alive
    /\ \A k, m \in 1..Len(free_particles) :
        free_particles[k] = free_particles[m] => k = m

\* A freed slot has been reused (more particles were spawned than the pool has
\* slots) while other particles are alive and other slots are free.
C3_Witness ==
    /\ SumSpawned(emitters, 1) > Len(particles)
    /\ AliveSlots(particles) # {}
    /\ free_particles # <<>>

(* C4: free list first.  An update appends exactly as many slots as it spawns *)
(* particles beyond the length of the free list (none while freed slots are   *)
(* left), and the pool never gets shorter.                                    *)
C4_FreeListFirst ==
    [][/\ Len(particles') >= Len(particles)
       /\ UpdateStep =>
            Len(particles') =
               Len(particles) + Max0(SumToSpawn(emitters', 1) - Len(free_particles))]_vars

\* One particle was spawned, died, and a second one took its slot: two spawns, one slot.
C4_Witness ==
    /\ Len(particles) = 1
    /\ particles[1].alive
    /\ SumSpawned(emitters, 1) = 2

(* C5: on a Strict(n) emitter, a tick that returns never sets                 *)
(* particles_to_spawn above the headroom max(0, n - alive_particles); with    *)
(* alive_particles = n it sets particles_to_spawn to 0.                       *)
C5_TickKeepsHeadroom ==
    \A i \in 1..Len(emitters) : \A dt \in 0..MaxDt :
        (IsStrict(emitters[i]) /\ ~TickUnderflows(emitters[i], dt)) =>
            Tick(emitters[i], dt).particles_to_spawn
               <= Max0(emitters[i].max_particles.n - emitters[i].alive_particles)

(* C6: with Box and Sphere emitters of positive spawn rate, no sequence of    *)
(* update(dt >= 0) and generate_draw_data calls ends in a fatal error.        *)
C6_NoFatalError == fault = "none"

(* C7: the particles_to_spawn of a one-shot emitter (Strict(n), no            *)
(* resurrection) is eventually 0 and stays 0 under repeated updates.          *)
C7_OneShotBecomesInert ==
    <>[](\A i \in 1..Len(emitters) :
            OneShot(emitters[i]) => emitters[i].particles_to_spawn = 0)

(* C8: a tick of a one-shot emitter that has spawned at least n particles     *)
(* (exactly n included), when it returns, has set particles_to_spawn to 0     *)
(* and left spawned_particles as it was.                                      *)
C8_HaltsAtLimit ==
    \A i \in 1..Len(emitters) : \A dt \in 0..MaxDt :
        (/\ OneShot(emitters[i])
         /\ emitters[i].spawned_particles >= emitters[i].max_particles.n
         /\ ~TickUnderflows(emitters[i], dt))
        => /\ Tick(emitters[i], dt).particles_to_spawn = 0
           /\ Tick(emitters[i], dt).spawned_particles = emitters[i].spawned_particles

(* C9: the emitter_index of every alive particle is an index into emitters    *)
(* and names the emitter that spawned it: the particle's initial lifetime     *)
(* lies in that emitter's lifetime range, and every emitter counts exactly    *)
(* the alive particles that carry its index.                                  *)
C9_EmitterIndexValid ==
    /\ \A k \in AliveSlots(particles) :
        /\ particles[k].emitter_index < Len(emitters)
        /\ particles[k].initial_lifetime
              \in RangeRandom(emitters[particles[k].emitter_index + 1].lifetime)
    /\ \A i \in 1..Len(emitters) :
        emitters[i].alive_particles = Cardinality(AliveSlotsOf(particles, i - 1))

\* Alive particles of the first and of the second emitter, whose lifetime ranges differ.
C9_Witness ==
    /\ Len(emitters) = 2
    /\ emitters[1].lifetime # emitters[2].lifetime
    /\ AliveSlotsOf(particles, 0) # {}
    /\ AliveSlotsOf(particles, 1) # {}

(* C10: generate_draw_data leaves 4 vertices and 2 triangles in draw_data for *)
(* every particle that is alive.                                              *)
C10_QuadPerAliveParticle ==
    [][DrawStep =>
        /\ Len(draw_data'.vertices) = 4 * Cardinality(AliveSlots(particles'))
        /\ Len(draw_data'.triangles) = 2 * Cardinality(AliveSlots(particles'))]_vars

\* Draw data of two alive particles taken from a pool that also holds a dead one.
C10_Witness ==
    /\ Cardinality(AliveSlots(particles)) = 2
    /\ Len(particles) > 2
    /\ Len(draw_data.vertices) = 8
    /\ Len(draw_data.triangles) = 4
    /\ Len(sorted_particles) = 2

(* C11: after generate_draw_data, sorted_particles lists the pool index of    *)
(* every alive particle exactly once and no other index, and the squared      *)
(* distance from the camera to (particle position + node global position)     *)
(* never grows along the list (back to front).                                *)
C11_SortedBackToFront ==
    [][\A camera_pos \in CameraPositions :
        GenerateDrawData(camera_pos) =>
            LET n == Len(sorted_particles')
                dist(k) == SqrDistance(camera_pos,
                              particles'[sorted_particles'[k] + 1].position + global_position')
            IN  /\ n = Cardinality(AliveSlots(particles'))
                /\ {sorted_particles'[k] + 1 : k \in 1..n} = AliveSlots(particles')
                /\ \A k \in 1..(n - 1) : dist(k) >= dist(k + 1)]_vars

\* The sort moved a farther particle in front of one with a smaller pool index.
C11_Witness ==
    /\ Len(sorted_particles) = 2
    /\ sorted_particles[1] > sorted_particles[2]
    /\ particles[sorted_particles[1] + 1].alive
    /\ particles[sorted_particles[2] + 1].alive
    /\ particles[sorted_particles[1] + 1].sqr_distance_to_camera
          > particles[sorted_particles[2] + 1].sqr_distance_to_camera

(* C12: Emitter::new hands no id below zero to the registry callback: every   *)
(* kind the callback was ever invoked with is non-negative.                   *)
C12_ReservedIdsSkipRegistry ==
    \A k \in 1..Len(called) : called[k] >= 0

(* C13: constructing an emitter with a non-negative id, by Emitter::new or by *)
(* Emitter::visit when reading, returns an error and neither panics nor       *)
(* builds an emitter while no callback is set or the callback fails; when     *)
(* the callback succeeds, its emitter is returned as Emitter::Custom.         *)
C13_RegistryFailureIsAnError ==
    [][\A node \in EmitterNodes :
        (node.KindId >= 0 /\ (CallEmitterNew(node.KindId) \/ CallEmitterVisit(node))) =>
            /\ fault' = "none"
            /\ IF callback = "None" \/ CallbackResult(callback, node.KindId).tag = "Err"
               THEN returned'.result.tag = "Err"
               ELSE /\ returned'.result.tag = "Ok"
                    /\ returned'.result.emitter.kind = "Custom"
                    /\ returned'.result = CallbackResult(callback, node.KindId)]_vars

\* Reading an emitter of a custom kind failed for want of a callback.
C13_Witness ==
    /\ callback = "None"
    /\ called = <<>>
    /\ returned.op = "visit"
    /\ returned.id >= 0
    /\ returned.result = Err("no callback specified")

(* C14: Emitter::new(-1), Emitter::new(-2), Emitter::new(-3) return Unknown,  *)
(* Box, Sphere, and the id() of each is the id it was made from; the id() of  *)
(* a custom emitter, where it returns, is its get_kind() and not negative.    *)
C14_BuiltInIdsRoundTrip ==
    /\ (returned.op = "new" /\ returned.id \in {-1, -2, -3}) =>
            /\ returned.result.tag = "Ok"
            /\ returned.result.emitter.kind =
                  (IF returned.id = -1 THEN "Unknown"
                   ELSE IF returned.id = -2 THEN "Box" ELSE "Sphere")
            /\ EmitterId(returned.result.emitter) = returned.id
    /\ (/\ returned.op # "none"
        /\ returned.result.tag = "Ok"
        /\ returned.result.emitter.kind = "Custom"
        /\ ~IdPanics(returned.result.emitter)) =>
            /\ EmitterId(returned.result.emitter) = returned.result.emitter.get_kind
            /\ EmitterId(returned.result.emitter) >= 0

\* Emitter::new(-3) has returned a sphere emitter.
C14_Witness ==
    /\ returned.op = "new"
    /\ returned.id = -3
    /\ returned.result.tag = "Ok"
    /\ returned.result.emitter.kind = "Sphere"

(* C15: no operation dispatched on Emitter::Unknown returns, and so no update *)
(* of a particle system that holds an Unknown emitter runs to its end: it     *)
(* aborts with a fatal error.                                                 *)
C15_UnknownEmitterAborts ==
    \A i \in 1..Len(emitters) :
        (emitters[i].kind = "Unknown" /\ fault = "none") =>
            /\ ~Dispatches(emitters[i])
            /\ \A dt \in 0..MaxDt :
                /\ ~ENABLED Update(dt)
                /\ ENABLED (UpdatePanic(dt) \/ UpdateOverflow(dt))

\* An update has ended in the panic of an Unknown emitter listed behind a working one.
C15_Witness ==
    /\ fault = "panic"
    /\ Len(emitters) = 2
    /\ emitters[1].kind # "Unknown"
    /\ emitters[2].kind = "Unknown"
    /\ particles # <<>>

\* The fields of a particle that its visit stores: all but the camera distance.
Persisted(particle) == [particle EXCEPT !.sqr_distance_to_camera = 0]

\* The state of an emitter that the round trip is to restore: all but particles_to_spawn.
Restorable(e) == [e EXCEPT !.particles_to_spawn = 0]

(* C16: a particle system with a box and a sphere emitter and live particles, *)
(* written through the visitor and read back, has the same emitter kind ids   *)
(* in the same order, the same persisted fields in every particle (all but    *)
(* the camera distance), and a pool and a free list of the same lengths.      *)
C16_SystemRoundTrip ==
    [][Load =>
        /\ Len(emitters') = Len(emitters)
        /\ \A i \in 1..Len(emitters) : EmitterId(emitters'[i]) = EmitterId(emitters[i])
        /\ Len(particles') = Len(particles)
        /\ \A k \in 1..Len(particles) : Persisted(particles'[k]) = Persisted(particles[k])
        /\ Len(free_particles') = Len(free_particles)]_vars

\* A system read back with alive particles of both emitters, a dead particle and a
\* free slot.
C16_Witness ==
    /\ visitor.state = "read"
    /\ AliveSlotsOf(particles, 0) # {}
    /\ AliveSlotsOf(particles, 1) # {}
    /\ \E k \in 1..Len(particles) : ~particles[k].alive
    /\ free_particles # <<>>

(* C17: an emitter read back from the visitor has the state that was saved:   *)
(* kind, geometry and every BaseEmitter field (position, spawn rate,          *)
(* max_particles, the ranges, alive_particles, time, resurrect_particles,     *)
(* spawned_particles), so that after the load the alive_particles of the      *)
(* emitters still add up to the number of alive particles.                    *)
C17_EmitterRoundTrip ==
    [][Load =>
        /\ \A i \in 1..Len(emitters) : Restorable(emitters'[i]) = Restorable(emitters[i])
        /\ SumAlive(emitters', 1) = Cardinality(AliveSlots(particles'))]_vars

(* C18: generate_draw_data rebuilds its outputs from nothing: whatever the    *)
(* buffers held, afterwards sorted_particles names alive particles only and   *)
(* draw_data is what the sorted particles give from empty buffers; a second   *)
(* call with the same camera position changes nothing.                        *)
C18_DrawDataRebuilt ==
    [][\A camera_pos \in CameraPositions :
        GenerateDrawData(camera_pos) =>
            LET again == WithDistances(particles', global_position', camera_pos)
                sorted == SortBy(again, AliveIndices(again, 1))
            IN  /\ \A k \in 1..Len(sorted_particles') :
                    particles'[sorted_particles'[k] + 1].alive
                /\ draw_data' = EmitQuads(particles', sorted_particles', 0, EmptyDrawData)
                /\ again = particles'
                /\ sorted = sorted_particles'
                /\ EmitQuads(again, sorted, 0, Clear(draw_data')) = draw_data']_vars

\* A particle that was drawn while alive has died, and the buffers, filled again
\* since, hold the quads of the alive particles without it.
C18_Witness ==
    /\ sorted_particles # <<>>
    /\ Len(draw_data.vertices) = 4 * Len(sorted_particles)
    /\ \E d \in 1..Len(particles) :
        /\ ~particles[d].alive
        /\ particles[d].sqr_distance_to_camera > 0
        /\ \A k \in 1..Len(sorted_particles) : sorted_particles[k] # d - 1

(* C19: after generate_draw_data the four vertices of every quad carry the    *)
(* world position of the quad's particle, its position plus the global        *)
(* position of the node, and the particle's size, rotation and color.         *)
C19_VerticesCarryWorldPosition ==
    [][DrawStep =>
        \A k \in 1..Len(sorted_particles') : \A corner \in 1..4 :
            LET particle == particles'[sorted_particles'[k] + 1]
                vertex == draw_data'.vertices[4 * (k - 1) + corner]
            IN  /\ vertex.position = particle.position + global_position'
                /\ vertex.size = particle.size
                /\ vertex.rotation = particle.rotation
                /\ vertex.color = particle.color]_vars

(* C20: after generate_draw_data the k-th quad in sorted order (k from 0)     *)
(* has the vertices 4k..4k+3 with the texture coordinates (0,0), (1,0),       *)
(* (1,1), (0,1) in that order and the triangles (4k,4k+1,4k+2) and            *)
(* (4k,4k+2,4k+3); every triangle index is smaller than the number of         *)
(* vertices and the three indices of a triangle lie in one quad.              *)
C20_QuadLayout ==
    [][DrawStep =>
        LET quads == Len(sorted_particles')
            vertices == draw_data'.vertices
            triangles == draw_data'.triangles
        IN  /\ Len(vertices) = 4 * quads
            /\ Len(triangles) = 2 * quads
            /\ \A k \in 0..(quads - 1) :
                /\ vertices[4 * k + 1].tex_coord = <<0, 0>>
                /\ vertices[4 * k + 2].tex_coord = <<1, 0>>
                /\ vertices[4 * k + 3].tex_coord = <<1, 1>>
                /\ vertices[4 * k + 4].tex_coord = <<0, 1>>
                /\ triangles[2 * k + 1] = <<4 * k, 4 * k + 1, 4 * k + 2>>
                /\ triangles[2 * k + 2] = <<4 * k, 4 * k + 2, 4 * k + 3>>
            /\ \A t \in 1..Len(triangles) :
                /\ \A j \in 1..3 : triangles[t][j] < Len(vertices)
                /\ \E k \in 0..(quads - 1) :
                    \A j \in 1..3 : triangles[t][j] \in (4 * k)..(4 * k + 3)]_vars

\* Draw data of at least three quads: the last triangle of the third quad is there.
C20_Witness ==
    /\ Len(sorted_particles) >= 3
    /\ Len(draw_data.vertices) = 4 * Len(sorted_particles)
    /\ Len(draw_data.triangles) >= 6
    /\ draw_data.triangles[6] = <<8, 10, 11>>

(* C21: within one update every emitter is ticked before any particle is      *)
(* spawned, the particles are spawned emitter by emitter in list order,       *)
(* particles_to_spawn of them for each emitter, and all spawning precedes the *)
(* particle loop: a particle spawned in update(dt) has lifetime dt            *)
(* afterwards, or is already dead if dt >= its initial_lifetime, and a slot   *)
(* freed by the particle loop holds a dead particle when the update returns.  *)
C21_TickSpawnThenStep ==
    [][\A dt \in 0..MaxDt :
        Update(dt) /\ fault' = "none" =>
            LET ticked == TickAll(emitters, dt)
                count == SumToSpawn(ticked, 1)
                before(i) == count - SumToSpawn(ticked, i + 1)
                kept == Max0(Len(free_particles) - count)
            IN  /\ \A i \in 1..Len(emitters) :
                    emitters'[i].particles_to_spawn = ticked[i].particles_to_spawn
                /\ \A i \in 1..Len(emitters) : \A k \in (before(i - 1) + 1)..before(i) :
                    LET spawned == particles'[SpawnSlot(free_particles, Len(particles), k)]
                    IN  /\ spawned.emitter_index = i - 1
                        /\ IF dt >= spawned.initial_lifetime
                           THEN ~spawned.alive /\ spawned.lifetime = spawned.initial_lifetime
                           ELSE spawned.alive /\ spawned.lifetime = dt
                /\ Len(particles') = Len(particles) + Max0(count - Len(free_particles))
                /\ SubSeq(free_particles', 1, kept) = SubSeq(free_particles, 1, kept)
                /\ \A k \in (kept + 1)..Len(free_particles') :
                    ~particles'[free_particles'[k] + 1].alive]_vars

\* Both emitters have spawned in the last update, the second one for the first
\* time, and its particles have died in that same update.
C21_Witness ==
    /\ Len(emitters) = 2
    /\ emitters[1].particles_to_spawn > 0
    /\ emitters[2].particles_to_spawn > 0
    /\ emitters[2].spawned_particles = emitters[2].particles_to_spawn
    /\ emitters[2].alive_particles = 0
    /\ \E i \in 1..Len(particles) :
        ~particles[i].alive /\ particles[i].emitter_index = 1

\* The number of places of a sequence that hold x.
Occurrences(seq, x) == Cardinality({k \in 1..Len(seq) : seq[k] = x})

C23_EveryParticleDies ==
    /\ [][\A dt \in 0..MaxDt :
            Update(dt) /\ fault' = "none" =>
                \A i \in 1..Len(particles) :
                    particles[i].alive =>
                        /\ particles'[i].alive <=>
                                particles[i].lifetime + dt < particles[i].initial_lifetime
                        /\ particles'[i].alive =>
                                particles'[i].lifetime = particles[i].lifetime + dt
                        /\ ~particles'[i].alive =>
                                Occurrences(free_particles', i - 1) = 1]_vars
    /\ \A i \in 1..(MaxEmitters * MaxSpawned) :
            (i <= Len(particles) /\ particles[i].alive)
                ~> (i <= Len(particles) /\ ~particles[i].alive
                    /\ Occurrences(free_particles, i - 1) = 1)

(* C24: an alive particle that does not expire in update(dt) changes as       *)
(* follows, with acceleration_offset = acceleration * dt * dt: velocity' =    *)
(* velocity + acceleration_offset, position' = position + velocity', size' =  *)
(* max(0, size + size_modifier * dt), rotation' = rotation + rotation_speed * *)
(* dt, color' = the gradient at lifetime' / initial_lifetime if a gradient is *)
(* set, else white.                                                           *)
C24_Integration ==
    [][\A dt \in 0..MaxDt :
        Update(dt) /\ fault' = "none" =>
            LET acceleration_offset == acceleration * dt * dt
            IN  \A i \in 1..Len(particles) :
                    LET old == particles[i]
                        new == particles'[i]
                    IN  old.alive /\ old.lifetime + dt < old.initial_lifetime =>
                            /\ new.velocity = old.velocity + acceleration_offset
                            /\ new.position = old.position + new.velocity
                            /\ new.size = Max0(old.size + old.size_modifier * dt)
                            /\ new.rotation = old.rotation + old.rotation_speed * dt
                            /\ new.lifetime = old.lifetime + dt
                            /\ new.color =
                                    IF color_over_lifetime = NoGradient THEN WHITE
                                    ELSE GetColor(color_over_lifetime, new.lifetime,
                                                  new.initial_lifetime)
                            /\ new.initial_lifetime = old.initial_lifetime
                            /\ new.size_modifier = old.size_modifier
                            /\ new.rotation_speed = old.rotation_speed
                            /\ new.emitter_index = old.emitter_index]_vars

\* A particle that two updates have accelerated and moved, in the second half of
\* its life under a gradient, its size held at zero.
C24_Witness ==
    \E i \in 1..Len(particles) :
        /\ particles[i].alive
        /\ particles[i].lifetime = 2
        /\ particles[i].velocity = 3
        /\ particles[i].rotation = 2
        /\ particles[i].size = 0
        /\ particles[i].color = "BLUE"

(* C25: after any update every alive particle has size >= 0, also when the    *)
(* size range or the size modifier range of its emitter holds negative        *)
(* values; no vertex that generate_draw_data produces has a negative size.    *)
C25_SizeNotNegative ==
    /\ \A i \in 1..Len(particles) : particles[i].alive => particles[i].size >= 0
    /\ \A k \in 1..Len(draw_data.vertices) : draw_data.vertices[k].size >= 0

\* An emitter with negative sizes and size modifiers; a particle of its, alive for
\* longer than its largest initial size lasts, has been drawn with size 0.
C25_Witness ==
    /\ emitters[1].size.min < 0
    /\ emitters[1].size_modifier.max < 0
    /\ \E i \in 1..Len(particles) :
        /\ particles[i].alive
        /\ particles[i].size = 0
        /\ particles[i].lifetime > emitters[1].size.max
        /\ \E k \in 1..Len(sorted_particles) :
            sorted_particles[k] = i - 1 /\ draw_data.vertices[4 * k].size = 0

(* C26: spawn accounting carries the remainder.  For an emitter with          *)
(* Unlimited max_particles and spawn rate r every tick keeps time + (spawned  *)
(* particles) / r level with the time that has passed and leaves 0 <= time <  *)
(* 1 / r, so that the particles_to_spawn of the ticks add up to               *)
(* floor(r * (dt1 + ... + dtk)).                                              *)
C26_RemainderCarried ==
    [][\A dt \in 0..MaxDt :
        Update(dt) /\ fault' = "none" =>
            \A i \in 1..Len(emitters) :
                LET old == emitters[i]
                    new == emitters'[i]
                IN  ~IsStrict(old) =>
                        /\ new.time + TimePerParticle(new) * new.spawned_particles
                            = old.time + dt + TimePerParticle(old) * old.spawned_particles
                        /\ new.particles_to_spawn
                            = new.spawned_particles - old.spawned_particles
                        /\ 0 <= new.time
                        /\ new.time < TimePerParticle(new)]_vars

\* An unlimited emitter that has spawned twice and holds half a spawn period.
C26_Witness ==
    \E i \in 1..Len(emitters) :
        /\ ~IsStrict(emitters[i])
        /\ emitters[i].spawned_particles >= 2
        /\ emitters[i].time > 0
        /\ emitters[i].particles_to_spawn = 1

(* C27: spawned_particles is a monotonic counter of the emitted particles: it *)
(* never decreases, every tick adds that tick's particles_to_spawn to it (0   *)
(* when spawning is halted), and those are the particles the update places    *)
(* into the pool for this emitter.                                            *)
C27_SpawnedParticlesCounts ==
    [][/\ \A i \in 1..Len(emitters) :
            Dispatches(emitters[i]) =>
                emitters'[i].spawned_particles >= emitters[i].spawned_particles
       /\ \A dt \in 0..MaxDt :
            Update(dt) /\ fault' = "none" =>
                LET count == SumToSpawn(emitters', 1)
                    placed(i) == {k \in 1..count :
                        particles'[SpawnSlot(free_particles, Len(particles), k)]
                            .emitter_index = i - 1}
                IN  \A i \in 1..Len(emitters) :
                        /\ emitters'[i].spawned_particles =
                                emitters[i].spawned_particles + emitters'[i].particles_to_spawn
                        /\ Halted(emitters[i]) => emitters'[i].particles_to_spawn = 0
                        /\ Cardinality(placed(i)) = emitters'[i].particles_to_spawn]_vars

\* A halted emitter next to one that goes on spawning: the last tick has added
\* nothing to the first counter and one particle to the second.
C27_Witness ==
    /\ Len(emitters) = 2
    /\ Halted(emitters[1])
    /\ emitters[1].particles_to_spawn = 0
    /\ emitters[1].spawned_particles > Cardinality(AliveSlotsOf(particles, 0))
    /\ emitters[2].particles_to_spawn = 1
    /\ emitters[2].spawned_particles >= 1

(* C28: the emit of a box or sphere emitter applies BaseEmitter::emit and     *)
(* then overwrites the position only: right after emit the particle has       *)
(* lifetime 0 and colour white, and initial_lifetime, size, size_modifier,    *)
(* velocity, rotation and rotation_speed inside the emitter's ranges; for a   *)
(* box emitter the position lies within the emitter's position -/+ the half   *)
(* extent.                                                                    *)
C28_EmitWithinRanges ==
    returned.op = "emit" =>
        LET e == returned.emitter
            particle == returned.particle
            Within(x, range) == range.min <= x /\ x <= range.max
        IN  /\ particle.lifetime = 0
            /\ particle.color = WHITE
            /\ Within(particle.initial_lifetime, e.lifetime)
            /\ Within(particle.size, e.size)
            /\ Within(particle.size_modifier, e.size_modifier)
            /\ Within(particle.velocity, e.x_velocity)
            /\ Within(particle.rotation, e.rotation)
            /\ Within(particle.rotation_speed, e.rotation_speed)
            /\ particle.alive
            /\ particle.emitter_index = returned.index
            /\ particle.sqr_distance_to_camera = 0
            /\ e.kind = "Box" =>
                    /\ e.position - e.extent <= particle.position
                    /\ particle.position <= e.position + e.extent

\* A box emitter away from the origin has put a particle with a negative size on
\* the low face of its box.
C28_Witness ==
    /\ returned.op = "emit"
    /\ returned.emitter.kind = "Box"
    /\ returned.emitter.position # 0
    /\ returned.particle.position = returned.emitter.position - returned.emitter.extent
    /\ returned.particle.size < 0
    /\ returned.particle.initial_lifetime = returned.emitter.lifetime.max

(* C29: free_particles holds exactly the indices of the pool slots whose      *)
(* particle is dead: each of them once, no index of an alive particle, every  *)
(* index below the pool length; so the pool length is the number of alive     *)
(* particles plus the length of free_particles.                               *)
C29_FreeListIsTheDeadSlots ==
    /\ \A i \in 1..Len(particles) :
        Occurrences(free_particles, i - 1) = IF particles[i].alive THEN 0 ELSE 1
    /\ \A k \in 1..Len(free_particles) :
        0 <= free_particles[k] /\ free_particles[k] < Len(particles)
    /\ Len(particles) = Cardinality(AliveSlots(particles)) + Len(free_particles)

\* A pool of three slots, one of them alive and the other two on the free list,
\* the higher index below the lower one.
C29_Witness ==
    /\ Len(particles) = 3
    /\ Cardinality(AliveSlots(particles)) = 1
    /\ Len(free_particles) = 2
    /\ free_particles[1] > free_particles[2]

(* C30: generate_draw_data does not touch the simulation: the pool (position, *)
(* velocity, size, alive flag, lifetime, rotation, color and emitter_index of *)
(* every particle), the free list, the emitter list and the counters of the   *)
(* emitters stay as they are; only the camera distance of the particles and   *)
(* the output buffers change.                                                 *)
C30_DrawLeavesSimulation ==
    [][DrawStep =>
        /\ Len(particles') = Len(particles)
        /\ \A i \in 1..Len(particles) :
            [particles'[i] EXCEPT !.sqr_distance_to_camera = 0]
                = [particles[i] EXCEPT !.sqr_distance_to_camera = 0]
        /\ free_particles' = free_particles
        /\ emitters' = emitters
        /\ acceleration' = acceleration
        /\ color_over_lifetime' = color_over_lifetime
        /\ global_position' = global_position]_vars

\* A drawn system with alive particles at a distance from the camera, a free
\* slot and emitters that have spawned.
C30_Witness ==
    /\ Len(draw_data.vertices) = 4 * Cardinality(AliveSlots(particles))
    /\ Len(draw_data.vertices) >= 8
    /\ Len(free_particles) >= 1
    /\ \A i \in AliveSlots(particles) : particles[i].sqr_distance_to_camera > 0
    /\ \A i \in 1..Len(emitters) : emitters[i].spawned_particles > 0

(* C31: update leaves a dead particle untouched: a slot whose particle is     *)
(* dead before update(dt) and that no spawn of that update reuses keeps every *)
(* field of its particle, gets no index pushed on the free list, and no       *)
(* emitter counter is decremented for it.                                     *)
C31_DeadParticleUntouched ==
    [][\A dt \in 0..MaxDt :
        Update(dt) /\ fault' = "none" =>
            LET count == SumToSpawn(emitters', 1)
                reused == {SpawnSlot(free_particles, Len(particles), k) : k \in 1..count}
                kept == Max0(Len(free_particles) - count)
                pushed == SubSeq(free_particles', kept + 1, Len(free_particles'))
                died(e) == {i \in 1..Len(particles') :
                                /\ ~particles'[i].alive
                                /\ particles'[i].emitter_index = e - 1
                                /\ i \in reused \/ particles[i].alive}
            IN  /\ \A i \in 1..Len(particles) :
                    ~particles[i].alive /\ i \notin reused =>
                        /\ particles'[i] = particles[i]
                        /\ Occurrences(pushed, i - 1) = 0
                        /\ Occurrences(free_particles', i - 1)
                            = Occurrences(free_particles, i - 1)
                /\ \A e \in 1..Len(emitters) :
                    emitters'[e].alive_particles =
                        emitters[e].alive_particles + emitters'[e].particles_to_spawn
                        - Cardinality(died(e))]_vars

\* The first particle, of the shortest life, is dead; the second one has been
\* alive for three ticks, the last of them in an update after its spawn, which
\* found the first one dead.
C31_Witness ==
    /\ Len(particles) = 2
    /\ ~particles[1].alive
    /\ particles[1].initial_lifetime = 3
    /\ particles[2].alive
    /\ particles[2].lifetime = 3
    /\ free_particles = <<0>>

(* C32: a ParticleLimit comes back from a save/load round trip unchanged,     *)
(* whatever its value: Unlimited as Unlimited and Strict(n) as Strict(n) for  *)
(* every unsigned n.                                                          *)
C32_LimitRoundTrip ==
    returned.op = "load_limit" => returned.read = returned.limit

====
